---- MODULE Spec2Model ----
(***************************************************************************)
(* Model of the listing / user backend in its two revisions:               *)
(*   rev = "file" : src/unnamed/part_000 (listings.json, users.json)        *)
(*   rev = "db"   : src/server.js (Postgres table listings, users.db.json)  *)
(* One request handler = one action.  Handlers are operators that take the *)
(* store they load and the request, and return the store they leave and    *)
(* the JSON response.  File and query faults are not modelled: every       *)
(* readFileSync / writeFileSync / pool.query succeeds unless the statement *)
(* itself is rejected (a non-integer id parameter).                        *)
(* SpecListings and SpecUsers serve one request at a time; SpecFileRace    *)
(* and SpecDbRace keep two requests in flight, one step per callback the   *)
(* event loop runs.                                                        *)
(***************************************************************************)
EXTENDS Integers, Sequences, FiniteSets, TLC

VARIABLES rev, listings, seq, users, clock, req, resp, prev, calls, queries

vars == <<rev, listings, seq, users, clock, req, resp, prev, calls, queries>>

(***************************************************************************)
(* Bounds.                                                                 *)
(***************************************************************************)
MaxId == 2         \* creates are issued while the next id is at most this
MaxUsers == 2      \* signups are accepted while the store holds fewer users
MaxClock == 2      \* the clock Date.now() reads stops advancing here
MaxQueries == 4    \* write queries run while two requests may be in flight

(***************************************************************************)
(* JavaScript values.  Strings are sequences of one-character strings so   *)
(* that trim, String() and Number() are computed, not assumed.             *)
(***************************************************************************)
Undef == [t |-> "undefined", n |-> 0, s |-> <<>>, a |-> <<>>]
Null == [t |-> "null", n |-> 0, s |-> <<>>, a |-> <<>>]
Num(k) == [t |-> "number", n |-> k, s |-> <<>>, a |-> <<>>]
Str(cs) == [t |-> "string", n |-> 0, s |-> cs, a |-> <<>>]
Bool(b) == [t |-> "boolean", n |-> IF b THEN 1 ELSE 0, s |-> <<>>, a |-> <<>>]
Arr(xs) == [t |-> "array", n |-> 0, s |-> <<>>, a |-> xs]

Digits == <<"0", "1", "2", "3", "4", "5", "6", "7", "8", "9">>

IsString(v) == v.t = "string"
IsArray(v) == v.t = "array"
IsNullish(v) == v.t \in {"undefined", "null"}

\* ToBoolean: the truthiness used by !x, x || y and x ? a : b
Truthy(v) ==
  CASE v.t = "undefined" -> FALSE
    [] v.t = "null" -> FALSE
    [] v.t = "number" -> v.n # 0
    [] v.t = "string" -> v.s # <<>>
    [] v.t = "boolean" -> v.n = 1
    [] OTHER -> TRUE

RECURSIVE NatToChars(_)
NatToChars(k) ==
  IF k < 10 THEN <<Digits[k + 1]>>
  ELSE NatToChars(k \div 10) \o <<Digits[(k % 10) + 1]>>

IntToChars(k) == IF k < 0 THEN <<"-">> \o NatToChars(0 - k) ELSE NatToChars(k)

RECURSIVE Join(_)
Join(xs) ==
  IF xs = <<>> THEN <<>>
  ELSE IF Len(xs) = 1 THEN xs[1]
  ELSE xs[1] \o <<",">> \o Join(Tail(xs))

\* String(v), as characters
ToChars(v) ==
  CASE v.t = "undefined" -> <<"u", "n", "d", "e", "f", "i", "n", "e", "d">>
    [] v.t = "null" -> <<"n", "u", "l", "l">>
    [] v.t = "number" -> IntToChars(v.n)
    [] v.t = "string" -> v.s
    [] v.t = "boolean" -> IF v.n = 1 THEN <<"t", "r", "u", "e">>
                          ELSE <<"f", "a", "l", "s", "e">>
    [] OTHER -> Join(v.a)

JsString(v) == Str(ToChars(v))

RECURSIVE TrimStart(_)
TrimStart(cs) ==
  IF cs # <<>> /\ cs[1] = " " THEN TrimStart(Tail(cs)) ELSE cs

RECURSIVE TrimEnd(_)
TrimEnd(cs) ==
  IF cs # <<>> /\ cs[Len(cs)] = " " THEN TrimEnd(SubSeq(cs, 1, Len(cs) - 1)) ELSE cs

\* String.prototype.trim
Trim(cs) == TrimEnd(TrimStart(cs))

DigitValue(c) == CHOOSE d \in 0..9 : Digits[d + 1] = c

IsDigit(c) == \E d \in 0..9 : Digits[d + 1] = c

AllDigits(cs) == cs # <<>> /\ \A i \in 1..Len(cs) : IsDigit(cs[i])

RECURSIVE CharsToNat(_)
CharsToNat(cs) ==
  IF cs = <<>> THEN 0
  ELSE 10 * CharsToNat(SubSeq(cs, 1, Len(cs) - 1)) + DigitValue(cs[Len(cs)])

\* Number(v) || 0 : NaN and 0 both give 0
NumberOrZero(v) ==
  CASE v.t = "number" -> v.n
    [] v.t = "boolean" -> v.n
    [] v.t = "string" ->
         LET cs == Trim(v.s) IN
           IF AllDigits(cs) THEN CharsToNat(cs)
           ELSE IF Len(cs) > 1 /\ cs[1] = "-" /\ AllDigits(Tail(cs))
                THEN 0 - CharsToNat(Tail(cs))
           ELSE 0
    [] OTHER -> 0

(***************************************************************************)
(* Generic sequence helpers (Array.prototype.find / filter / some).        *)
(***************************************************************************)
\* index of the first element satisfying P, 0 when there is none
FindIndex(xs, P(_)) ==
  IF \E i \in 1..Len(xs) : P(xs[i])
  THEN CHOOSE i \in 1..Len(xs) : P(xs[i]) /\ \A j \in 1..(i - 1) : ~P(xs[j])
  ELSE 0

Filter(xs, P(_)) == SelectSeq(xs, P)

Some(xs, P(_)) == \E i \in 1..Len(xs) : P(xs[i])

(***************************************************************************)
(* File revision: listings.json.  A field whose value is undefined is      *)
(* dropped by JSON.stringify and reads back as undefined, so an absent     *)
(* field and an undefined field are the same value Undef.                  *)
(***************************************************************************)
RECURSIVE MaxIdOf(_, _)
MaxIdOf(data, acc) ==
  IF data = <<>> THEN acc
  ELSE LET k == NumberOrZero(data[1].id)
       IN MaxIdOf(Tail(data), IF k > acc THEN k ELSE acc)

NextIdByLength(data) == Len(data) + 1

\* nextId of POST /api/listings
NextId(data) == IF Len(data) > 0 THEN MaxIdOf(data, 0) + 1 ELSE 1

NewListing(id) ==
  [id |-> Num(id), title |-> Str(<<>>), price |-> Str(<<>>),
   location |-> Str(<<>>), desc |-> Str(<<>>), tags |-> Arr(<<>>),
   images |-> Arr(<<>>), imgs |-> Undef, mapUrl |-> Str(<<>>),
   lat |-> Null, lng |-> Null, completed |-> Bool(FALSE)]

SetIfString(old, new) == IF IsString(new) THEN new ELSE old

SetIfDefined(old, new) == IF new.t # "undefined" THEN new ELSE old

SetIfNotNullish(old, new) == IF ~IsNullish(new) THEN new ELSE old

SetIfArray(old, new) == IF IsArray(new) THEN new ELSE old

ApplyBodyLoose(target, body) ==
  [target EXCEPT
     !.title = SetIfString(@, body.title),
     !.price = SetIfDefined(@, body.price),
     !.location = SetIfString(@, body.location),
     !.desc = SetIfString(@, body.desc),
     !.mapUrl = SetIfString(@, body.mapUrl),
     !.lat = SetIfNotNullish(@, body.lat),
     !.lng = SetIfNotNullish(@, body.lng),
     !.tags = SetIfArray(@, body.tags),
     !.images = SetIfArray(@, body.images)]

\* the field assignments of POST /api/listings
ApplyBody(target, body) ==
  [target EXCEPT
     !.title = SetIfString(@, body.title),
     !.price = SetIfString(@, body.price),
     !.location = SetIfString(@, body.location),
     !.desc = SetIfString(@, body.desc),
     !.mapUrl = SetIfString(@, body.mapUrl),
     !.lat = SetIfNotNullish(@, body.lat),
     !.lng = SetIfNotNullish(@, body.lng),
     !.tags = SetIfArray(@, body.tags),
     !.images = SetIfArray(@, body.images)]

\* index of the listing the request names, 0 when it names none
FileTargetIndex(data, body) ==
  IF Truthy(body.id)
  THEN LET Same(x) == JsString(x.id) = JsString(body.id) IN FindIndex(data, Same)
  ELSE 0

\* POST /api/listings (create or update)
FilePostListing(data, body) ==
  LET i == FileTargetIndex(data, body)
      withTarget == IF i = 0 THEN Append(data, NewListing(NextId(data))) ELSE data
      j == IF i = 0 THEN Len(withTarget) ELSE i
      saved == [withTarget EXCEPT ![j] = ApplyBody(@, body)]
  IN [data |-> saved,
      res |-> [status |-> 200, ok |-> TRUE, listing |-> saved[j]]]

FileDeleteNoCheck(data, id) ==
  LET Keep(x) == JsString(x.id) # Str(id)
  IN [data |-> Filter(data, Keep), res |-> [status |-> 200, ok |-> TRUE]]

\* DELETE /api/listings/:id
FileDeleteListing(data, id) ==
  LET Keep(x) == JsString(x.id) # Str(id)
      filtered == Filter(data, Keep)
  IN IF Len(data) = Len(filtered)
     THEN [data |-> data,
           res |-> [status |-> 200, ok |-> FALSE, error |-> "not found"]]
     ELSE [data |-> filtered, res |-> [status |-> 200, ok |-> TRUE]]

\* PATCH /api/listings/:id/complete
FilePatchComplete(data, id, completed) ==
  LET Same(x) == JsString(x.id) = Str(id)
      i == FindIndex(data, Same)
  IN IF i = 0
     THEN [data |-> data,
           res |-> [status |-> 200, ok |-> FALSE, error |-> "not found"]]
     ELSE LET saved == [data EXCEPT ![i].completed = Bool(Truthy(completed))]
          IN [data |-> saved,
              res |-> [status |-> 200, ok |-> TRUE, listing |-> saved[i]]]

OrEmpty(v) == IF Truthy(v) THEN v ELSE Str(<<>>)

OrEmptyArray(v) == IF Truthy(v) THEN v ELSE Arr(<<>>)

\* the object the sync handler builds from one incoming item
CleanItem(item) ==
  [id |-> item.id,
   title |-> OrEmpty(item.title),
   price |-> OrEmpty(item.price),
   location |-> OrEmpty(item.location),
   desc |-> OrEmpty(item.desc),
   tags |-> IF IsArray(item.tags) THEN item.tags ELSE Arr(<<>>),
   imgs |-> IF IsArray(item.imgs) THEN item.imgs ELSE OrEmptyArray(item.images),
   images |-> IF IsArray(item.images) THEN item.images ELSE OrEmptyArray(item.imgs),
   mapUrl |-> OrEmpty(item.mapUrl),
   lat |-> item.lat,
   lng |-> item.lng,
   completed |-> Bool(Truthy(item.completed))]

\* an object with the given fields; a field it lacks reads as undefined
Obj(fields) == [t |-> "object", n |-> 0, s |-> <<>>, a |-> <<>>, f |-> fields]

NoFields ==
  [id |-> Undef, title |-> Undef, price |-> Undef, location |-> Undef,
   desc |-> Undef, tags |-> Undef, imgs |-> Undef, images |-> Undef,
   mapUrl |-> Undef, lat |-> Undef, lng |-> Undef, completed |-> Undef]

\* !item || typeof item !== "object" ; typeof null and typeof [] are "object"
IsObject(item) == item.t \in {"object", "array"}

RECURSIVE CleanAll(_)
CleanAll(incoming) ==
  IF incoming = <<>> THEN <<>>
  ELSE (IF IsObject(incoming[1])
        THEN <<CleanItem(IF incoming[1].t = "object" THEN incoming[1].f ELSE NoFields)>>
        ELSE <<>>)
       \o CleanAll(Tail(incoming))

\* POST /api/listings/sync
FileSync(bodyListings) ==
  LET incoming == IF IsArray(bodyListings) THEN bodyListings.a ELSE <<>>
      clean == CleanAll(incoming)
  IN [data |-> clean, res |-> [status |-> 200, ok |-> TRUE, count |-> Len(clean)]]

(***************************************************************************)
(* Database revision: table listings, id SERIAL.  seq is the last value    *)
(* handed out by the table's id sequence.  tags and images go through      *)
(* JSON.stringify and the jsonb column and come back as the same arrays of *)
(* strings.  The created_at / updated_at columns hold clock readings that  *)
(* no handler reads back; the rows of the model leave them out.            *)
(***************************************************************************)
\* x ? String(x) : ""
StringOrEmpty(v) == IF Truthy(v) THEN JsString(v) ELSE Str(<<>>)

\* Array.isArray(x) ? x : []
ArrayOrEmpty(v) == IF IsArray(v) THEN v ELSE Arr(<<>>)

RECURSIVE InsertDesc(_, _)
InsertDesc(row, sorted) ==
  IF sorted = <<>> THEN <<row>>
  ELSE IF row.id.n > sorted[1].id.n THEN <<row>> \o sorted
  ELSE <<sorted[1]>> \o InsertDesc(row, Tail(sorted))

RECURSIVE SortDesc(_)
SortDesc(rows) ==
  IF rows = <<>> THEN <<>> ELSE InsertDesc(rows[1], SortDesc(Tail(rows)))

\* LISTING_SELECT_SQL + " ORDER BY id DESC"
SelectAllDesc(rows) == SortDesc(rows)

\* the text of an id parameter is accepted as an integer by WHERE id = $1
IsIntText(cs) == AllDigits(cs)

ServerError == [status |-> 500, ok |-> FALSE, error |-> "server error"]

NotFound404 == [status |-> 404, ok |-> FALSE, error |-> "not found"]

TitleRequired == [status |-> 200, ok |-> FALSE, error |-> "title required"]

\* POST /api/listings
DbPostListing(rows, seqv, body) ==
  IF ~Truthy(body.title)
  THEN [data |-> rows, seq |-> seqv, res |-> TitleRequired]
  ELSE LET newItem ==
             [id |-> Num(seqv + 1),
              title |-> JsString(body.title),
              price |-> StringOrEmpty(body.price),
              location |-> StringOrEmpty(body.location),
              mapUrl |-> StringOrEmpty(body.mapUrl),
              desc |-> StringOrEmpty(body.desc),
              tags |-> ArrayOrEmpty(body.tags),
              images |-> ArrayOrEmpty(body.images),
              contractDone |-> Bool(FALSE)]
           saved == Append(rows, newItem)
       IN [data |-> saved, seq |-> seqv + 1,
           res |-> [status |-> 200, ok |-> TRUE, listing |-> newItem,
                    listings |-> SelectAllDesc(saved)]]

\* the SET clause of PUT /api/listings/:id
PutRow(row, body) ==
  [row EXCEPT
     !.title = JsString(body.title),
     !.price = StringOrEmpty(body.price),
     !.location = StringOrEmpty(body.location),
     !.mapUrl = StringOrEmpty(body.mapUrl),
     !.desc = StringOrEmpty(body.desc),
     !.tags = ArrayOrEmpty(body.tags),
     !.images = ArrayOrEmpty(body.images)]

\* index of the row WHERE id = $1 selects, 0 when there is none
DbRowIndex(rows, id) ==
  LET Same(x) == x.id = Num(CharsToNat(id)) IN FindIndex(rows, Same)

\* PUT /api/listings/:id
DbPutListing(rows, id, body) ==
  IF ~Truthy(body.title) THEN [data |-> rows, res |-> TitleRequired]
  ELSE IF ~IsIntText(id) THEN [data |-> rows, res |-> ServerError]
  ELSE LET i == DbRowIndex(rows, id)
       IN IF i = 0 THEN [data |-> rows, res |-> NotFound404]
          ELSE LET saved == [rows EXCEPT ![i] = PutRow(@, body)]
               IN [data |-> saved,
                   res |-> [status |-> 200, ok |-> TRUE, listing |-> saved[i],
                            listings |-> SelectAllDesc(saved)]]

\* DELETE /api/listings/:id
DbDeleteListing(rows, id) ==
  IF ~IsIntText(id) THEN [data |-> rows, res |-> ServerError]
  ELSE LET Keep(x) == x.id # Num(CharsToNat(id))
           saved == Filter(rows, Keep)
       IN IF Len(rows) - Len(saved) = 0
          THEN [data |-> rows, res |-> NotFound404]
          ELSE [data |-> saved,
                res |-> [status |-> 200, ok |-> TRUE,
                         listings |-> SelectAllDesc(saved)]]

DbPostContractReturnsOld(rows, id, done) ==
  IF ~IsIntText(id) THEN [data |-> rows, res |-> ServerError]
  ELSE LET i == DbRowIndex(rows, id)
       IN IF i = 0 THEN [data |-> rows, res |-> NotFound404]
          ELSE LET saved == [rows EXCEPT ![i].contractDone = Bool(Truthy(done))]
               IN [data |-> saved,
                   res |-> [status |-> 200, ok |-> TRUE, listing |-> rows[i],
                            listings |-> SelectAllDesc(saved)]]

\* POST /api/listings/:id/contract
DbPostContract(rows, id, done) ==
  IF ~IsIntText(id) THEN [data |-> rows, res |-> ServerError]
  ELSE LET i == DbRowIndex(rows, id)
       IN IF i = 0 THEN [data |-> rows, res |-> NotFound404]
          ELSE LET saved == [rows EXCEPT ![i].contractDone = Bool(Truthy(done))]
               IN [data |-> saved,
                   res |-> [status |-> 200, ok |-> TRUE, listing |-> saved[i],
                            listings |-> SelectAllDesc(saved)]]

(***************************************************************************)
(* Requests issued to the listing handlers.                                *)
(***************************************************************************)
EmptyBody ==
  [id |-> Undef, title |-> Undef, price |-> Undef, location |-> Undef,
   desc |-> Undef, mapUrl |-> Undef, lat |-> Undef, lng |-> Undef,
   tags |-> Undef, images |-> Undef]

TitleOnlyBody == [EmptyBody EXCEPT !.title = Str(<<"A">>)]

FullBody ==
  [id |-> Undef, title |-> Str(<<"B">>), price |-> Str(<<"5">>),
   location |-> Str(<<"L">>), desc |-> Str(<<"D">>), mapUrl |-> Str(<<"M">>),
   lat |-> Num(1), lng |-> Num(2), tags |-> Arr(<< <<"t">> >>),
   images |-> Arr(<< <<"i">> >>)]

\* an empty title and fields of the wrong type
WrongTypeBody ==
  [id |-> Undef, title |-> Str(<<>>), price |-> Num(7), location |-> Null,
   desc |-> Bool(TRUE), mapUrl |-> Num(0), lat |-> Null, lng |-> Undef,
   tags |-> Str(<<"t">>), images |-> Null]

NumberTitleBody == [EmptyBody EXCEPT !.title = Num(5), !.price = Num(7)]

ListingBodies == {EmptyBody, TitleOnlyBody, FullBody, WrongTypeBody, NumberTitleBody}

\* body.id of a file-revision POST
BodyIds == {Undef, Num(1), Str(<<"2">>)}

\* :id of a route
IdParams == {<<"1">>, <<"2">>, <<"x">>}

\* body.completed / body.done
Flags == {Undef, Str(<<"n">>)}

SyncItemA ==
  Obj([NoFields EXCEPT !.id = Num(1), !.title = Str(<<"A">>),
                       !.images = Arr(<< <<"i">> >>)])

SyncItemB ==
  Obj([NoFields EXCEPT !.id = Num(1), !.title = Str(<<"B">>),
                       !.imgs = Arr(<< <<"j">> >>), !.completed = Num(1)])

SyncItemC == Obj([NoFields EXCEPT !.id = Str(<<"2">>), !.price = Num(7)])

SyncItemNoId == Obj(NoFields)

\* body.listings of a sync request
SyncBodies ==
  {Undef, Arr(<<SyncItemA, SyncItemB>>), Arr(<<Null, SyncItemC>>),
   Arr(<<SyncItemNoId>>)}

NoRequest == [op |-> "none"]

NoResponse == [status |-> 0, ok |-> FALSE]

\* Two clients may have a request in flight at the same time; calls[c] is the
\* position of client c's request inside the server.
Clients == {"A", "B"}

Idle == [pc |-> "idle"]

NoCalls == [c \in Clients |-> Idle]

(***************************************************************************)
(* Listing actions.                                                        *)
(***************************************************************************)
FilePostListings ==
  /\ rev = "file"
  /\ \E b \in ListingBodies, idv \in BodyIds :
       LET body == [b EXCEPT !.id = idv]
           r == FilePostListing(listings, body)
       IN /\ FileTargetIndex(listings, body) = 0 => NextId(listings) <= MaxId
          /\ listings' = r.data
          /\ resp' = r.res
          /\ req' = [op |-> "postListing", body |-> body]
          /\ prev' = listings
  /\ UNCHANGED <<calls, queries, rev, seq, users, clock>>

FileDeleteListings ==
  /\ rev = "file"
  /\ \E id \in IdParams :
       LET r == FileDeleteListing(listings, id)
       IN /\ listings' = r.data
          /\ resp' = r.res
          /\ req' = [op |-> "deleteListing", id |-> id]
          /\ prev' = listings
  /\ UNCHANGED <<calls, queries, rev, seq, users, clock>>

FilePatchCompletes ==
  /\ rev = "file"
  /\ \E id \in IdParams, c \in Flags :
       LET r == FilePatchComplete(listings, id, c)
       IN /\ listings' = r.data
          /\ resp' = r.res
          /\ req' = [op |-> "complete", id |-> id, flag |-> c]
          /\ prev' = listings
  /\ UNCHANGED <<calls, queries, rev, seq, users, clock>>

FileSyncs ==
  /\ rev = "file"
  /\ \E bl \in SyncBodies :
       LET r == FileSync(bl)
       IN /\ listings' = r.data
          /\ resp' = r.res
          /\ req' = [op |-> "sync", listings |-> bl]
          /\ prev' = listings
  /\ UNCHANGED <<calls, queries, rev, seq, users, clock>>

DbPostListings ==
  /\ rev = "db"
  /\ \E body \in ListingBodies :
       LET r == DbPostListing(listings, seq, body)
       IN /\ Truthy(body.title) => seq < MaxId
          /\ listings' = r.data
          /\ seq' = r.seq
          /\ resp' = r.res
          /\ req' = [op |-> "postListing", body |-> body]
          /\ prev' = listings
  /\ UNCHANGED <<calls, queries, rev, users, clock>>

DbPutListings ==
  /\ rev = "db"
  /\ \E id \in IdParams, body \in ListingBodies :
       LET r == DbPutListing(listings, id, body)
       IN /\ listings' = r.data
          /\ resp' = r.res
          /\ req' = [op |-> "putListing", id |-> id, body |-> body]
          /\ prev' = listings
  /\ UNCHANGED <<calls, queries, rev, seq, users, clock>>

DbDeleteListings ==
  /\ rev = "db"
  /\ \E id \in IdParams :
       LET r == DbDeleteListing(listings, id)
       IN /\ listings' = r.data
          /\ resp' = r.res
          /\ req' = [op |-> "deleteListing", id |-> id]
          /\ prev' = listings
  /\ UNCHANGED <<calls, queries, rev, seq, users, clock>>

DbPostContracts ==
  /\ rev = "db"
  /\ \E id \in IdParams, d \in Flags :
       LET r == DbPostContract(listings, id, d)
       IN /\ listings' = r.data
          /\ resp' = r.res
          /\ req' = [op |-> "contract", id |-> id, flag |-> d]
          /\ prev' = listings
  /\ UNCHANGED <<calls, queries, rev, seq, users, clock>>

InitListings ==
  /\ rev \in {"file", "db"}
  /\ listings = <<>>
  /\ seq = 0
  /\ users = <<>>
  /\ clock = 1
  /\ req = NoRequest
  /\ resp = NoResponse
  /\ prev = <<>>
  /\ calls = NoCalls
  /\ queries = 0

NextListings ==
  \/ FilePostListings
  \/ FileDeleteListings
  \/ FilePatchCompletes
  \/ FileSyncs
  \/ DbPostListings
  \/ DbPutListings
  \/ DbDeleteListings
  \/ DbPostContracts

SpecListings == InitListings /\ [][NextListings]_vars

(***************************************************************************)
(* User store.  File revision: users.json holds {id, nickname, phone,       *)
(* password, createdAt}.  Database revision: users.db.json holds {id,       *)
(* nickname, phone, pw, role}.                                              *)
(***************************************************************************)
AdminName == <<"a", "d", "m", "i", "n">>

AdminPassword == <<"a", "d", "m", "i", "n", "1", "2", "3">>

\* (x || "").trim() throws a TypeError when x is truthy and has no trim method
TrimThrows(v) == Truthy(v) /\ ~IsString(v)

\* (x || "").trim(), as characters
TrimOrEmpty(v) == IF Truthy(v) THEN Trim(v.s) ELSE <<>>

FileSignupNoDuplicateCheck(store, body, t1, t2) ==
  IF TrimThrows(body.nickname) \/ TrimThrows(body.phone) \/ TrimThrows(body.password)
  THEN [data |-> store, res |-> ServerError]
  ELSE LET nickname == TrimOrEmpty(body.nickname)
           phone == TrimOrEmpty(body.phone)
           password == TrimOrEmpty(body.password)
       IN IF nickname = <<>> \/ phone = <<>> \/ password = <<>>
          THEN [data |-> store,
                res |-> [status |-> 200, ok |-> FALSE, error |-> "fields required"]]
          ELSE LET user == [id |-> Num(t1), nickname |-> Str(nickname),
                            phone |-> Str(phone), password |-> Str(password),
                            createdAt |-> Str(NatToChars(t2))]
               IN [data |-> Append(store, user),
                   res |-> [status |-> 200, ok |-> TRUE, user |-> user]]

\* POST /api/signup, file revision; t1 is Date.now(), t2 the reading of
\* new Date(), written as its text
FileSignup(store, body, t1, t2) ==
  IF TrimThrows(body.nickname) \/ TrimThrows(body.phone) \/ TrimThrows(body.password)
  THEN [data |-> store, res |-> ServerError]
  ELSE LET nickname == TrimOrEmpty(body.nickname)
           phone == TrimOrEmpty(body.phone)
           password == TrimOrEmpty(body.password)
           Exists(u) == u.nickname = Str(nickname) \/ u.phone = Str(phone)
       IN IF nickname = <<>> \/ phone = <<>> \/ password = <<>>
          THEN [data |-> store,
                res |-> [status |-> 200, ok |-> FALSE, error |-> "fields required"]]
          ELSE IF Some(store, Exists)
          THEN [data |-> store,
                res |-> [status |-> 200, ok |-> FALSE, error |-> "already registered"]]
          ELSE LET user == [id |-> Num(t1), nickname |-> Str(nickname),
                            phone |-> Str(phone), password |-> Str(password),
                            createdAt |-> Str(NatToChars(t2))]
               IN [data |-> Append(store, user),
                   res |-> [status |-> 200, ok |-> TRUE, user |-> user]]

FileLoginIgnoresPassword(store, body) ==
  IF TrimThrows(body.nickname) \/ TrimThrows(body.password)
  THEN ServerError
  ELSE LET nickname == TrimOrEmpty(body.nickname)
           password == TrimOrEmpty(body.password)
           Match(u) == u.nickname = Str(nickname)
           i == FindIndex(store, Match)
       IN IF nickname = <<>> \/ password = <<>>
          THEN [status |-> 200, ok |-> FALSE, error |-> "fields required"]
          ELSE IF i = 0
          THEN [status |-> 200, ok |-> FALSE, error |-> "mismatch"]
          ELSE [status |-> 200, ok |-> TRUE,
                user |-> [id |-> store[i].id, nickname |-> store[i].nickname,
                          phone |-> store[i].phone]]

\* POST /api/login, file revision
FileLogin(store, body) ==
  IF TrimThrows(body.nickname) \/ TrimThrows(body.password)
  THEN ServerError
  ELSE LET nickname == TrimOrEmpty(body.nickname)
           password == TrimOrEmpty(body.password)
           Match(u) == u.nickname = Str(nickname) /\ u.password = Str(password)
           i == FindIndex(store, Match)
       IN IF nickname = <<>> \/ password = <<>>
          THEN [status |-> 200, ok |-> FALSE, error |-> "fields required"]
          ELSE IF i = 0
          THEN [status |-> 200, ok |-> FALSE, error |-> "mismatch"]
          ELSE [status |-> 200, ok |-> TRUE,
                user |-> [id |-> store[i].id, nickname |-> store[i].nickname,
                          phone |-> store[i].phone]]

\* GET /api/users, file revision
FileUsers(store) ==
  [status |-> 200, ok |-> TRUE,
   users |-> [i \in 1..Len(store) |->
                [id |-> store[i].id, nickname |-> store[i].nickname,
                 phone |-> store[i].phone, createdAt |-> store[i].createdAt]]]

AdminUser ==
  [id |-> Str(AdminName), nickname |-> Str(AdminName), phone |-> Str(<<>>),
   pw |-> Str(AdminPassword), role |-> "admin"]

EnsureAdminUserAlways(store) == Append(store, AdminUser)

\* ensureAdminUser, run when the server starts
EnsureAdminUser(store) ==
  LET IsAdmin(u) == u.id = Str(AdminName)
  IN IF ~Some(store, IsAdmin) THEN Append(store, AdminUser) ELSE store

\* POST /api/signup, database revision
DbSignup(store, body) ==
  IF ~Truthy(body.nickname) \/ ~Truthy(body.password)
  THEN [data |-> store,
        res |-> [status |-> 200, ok |-> FALSE, error |-> "fields required"]]
  ELSE LET trimmedNickname == Trim(ToChars(body.nickname))
           trimmedPhone == IF Truthy(body.phone) THEN Trim(ToChars(body.phone)) ELSE <<>>
           Taken(u) == u.id = Str(trimmedNickname) \/ u.nickname = Str(trimmedNickname)
       IN IF trimmedNickname = <<>>
          THEN [data |-> store,
                res |-> [status |-> 200, ok |-> FALSE, error |-> "bad nickname"]]
          ELSE IF trimmedNickname = AdminName
          THEN [data |-> store,
                res |-> [status |-> 200, ok |-> FALSE, error |-> "admin reserved"]]
          ELSE IF Some(store, Taken)
          THEN [data |-> store,
                res |-> [status |-> 200, ok |-> FALSE, error |-> "nickname taken"]]
          ELSE LET newUser == [id |-> Str(trimmedNickname),
                               nickname |-> Str(trimmedNickname),
                               phone |-> Str(trimmedPhone),
                               pw |-> JsString(body.password), role |-> "user"]
               IN [data |-> Append(store, newUser),
                   res |-> [status |-> 200, ok |-> TRUE,
                            user |-> [id |-> newUser.id, nickname |-> newUser.nickname,
                                      phone |-> newUser.phone, role |-> newUser.role]]]

\* POST /api/login, database revision
DbLogin(store, body) ==
  IF ~Truthy(body.nickname) \/ ~Truthy(body.password)
  THEN [status |-> 200, ok |-> FALSE, error |-> "fields required"]
  ELSE LET trimmedNickname == Trim(ToChars(body.nickname))
           pw == JsString(body.password)
           Match(u) == (u.id = Str(trimmedNickname) \/ u.nickname = Str(trimmedNickname))
                       /\ u.pw = pw
           i == FindIndex(store, Match)
       IN IF i = 0
          THEN [status |-> 200, ok |-> FALSE, error |-> "mismatch"]
          ELSE [status |-> 200, ok |-> TRUE,
                user |-> [id |-> store[i].id, nickname |-> store[i].nickname,
                          phone |-> store[i].phone, role |-> store[i].role]]

\* GET /api/users, database revision
DbUsers(store) ==
  [status |-> 200, ok |-> TRUE,
   users |-> [i \in 1..Len(store) |->
                [id |-> store[i].id, nickname |-> store[i].nickname,
                 phone |-> store[i].phone, role |-> store[i].role]]]

(***************************************************************************)
(* Requests issued to the user handlers.                                   *)
(***************************************************************************)
Nicknames == {Str(<<"a">>), Str(<<" ", "a">>), Str(<<"A">>), Str(AdminName), Num(5)}

Passwords == {Undef, Str(<<"x">>), Str(<<" ", "y">>)}

Phones == {Undef, Str(<<"1">>), Str(<<"2">>)}

SignupBodies == [nickname : Nicknames, phone : Phones, password : Passwords]

LoginBodies == [nickname : Nicknames, password : Passwords]

(***************************************************************************)
(* User actions.                                                           *)
(***************************************************************************)
\* the clock advances between requests
Tick ==
  /\ clock < MaxClock
  /\ clock' = clock + 1
  /\ UNCHANGED <<calls, queries, rev, listings, seq, users, req, resp, prev>>

\* both clock readings of a signup fall in the current tick
FileSignups ==
  /\ rev = "file"
  /\ \E body \in SignupBodies :
       LET r == FileSignup(users, body, clock, clock)
       IN /\ r.res.ok => Len(users) < MaxUsers
          /\ users' = r.data
          /\ resp' = r.res
          /\ req' = [op |-> "signup", body |-> body]
          /\ prev' = users
  /\ UNCHANGED <<calls, queries, rev, listings, seq, clock>>

FileLogins ==
  /\ rev = "file"
  /\ \E body \in LoginBodies :
       /\ resp' = FileLogin(users, body)
       /\ req' = [op |-> "login", body |-> body]
  /\ prev' = users
  /\ UNCHANGED <<calls, queries, rev, listings, seq, users, clock>>

FileGetUsers ==
  /\ rev = "file"
  /\ resp' = FileUsers(users)
  /\ req' = [op |-> "users"]
  /\ prev' = users
  /\ UNCHANGED <<calls, queries, rev, listings, seq, users, clock>>

\* the server starts again on the users file it left
DbRestart ==
  /\ rev = "db"
  /\ users' = EnsureAdminUser(users)
  /\ resp' = NoResponse
  /\ req' = [op |-> "restart"]
  /\ prev' = users
  /\ UNCHANGED <<calls, queries, rev, listings, seq, clock>>

DbSignups ==
  /\ rev = "db"
  /\ \E body \in SignupBodies :
       LET r == DbSignup(users, body)
       IN /\ r.res.ok => Len(users) < MaxUsers
          /\ users' = r.data
          /\ resp' = r.res
          /\ req' = [op |-> "signup", body |-> body]
          /\ prev' = users
  /\ UNCHANGED <<calls, queries, rev, listings, seq, clock>>

DbLogins ==
  /\ rev = "db"
  /\ \E body \in LoginBodies :
       /\ resp' = DbLogin(users, body)
       /\ req' = [op |-> "login", body |-> body]
  /\ prev' = users
  /\ UNCHANGED <<calls, queries, rev, listings, seq, users, clock>>

DbGetUsers ==
  /\ rev = "db"
  /\ resp' = DbUsers(users)
  /\ req' = [op |-> "users"]
  /\ prev' = users
  /\ UNCHANGED <<calls, queries, rev, listings, seq, users, clock>>

InitUsers ==
  /\ rev \in {"file", "db"}
  /\ listings = <<>>
  /\ seq = 0
  /\ users = IF rev = "db" THEN EnsureAdminUser(<<>>) ELSE <<>>
  /\ clock = 1
  /\ req = NoRequest
  /\ resp = NoResponse
  /\ prev = <<>>
  /\ calls = NoCalls
  /\ queries = 0

NextUsers ==
  \/ Tick
  \/ FileSignups
  \/ FileLogins
  \/ FileGetUsers
  \/ DbRestart
  \/ DbSignups
  \/ DbLogins
  \/ DbGetUsers

SpecUsers == InitUsers /\ [][NextUsers]_vars

(***************************************************************************)
(* Vocabulary of the listing claims.  req is the last request, prev the    *)
(* store it found, resp its response, listings the store it left.          *)
(***************************************************************************)
\* the last request was a POST /api/listings that names no stored listing
IsCreate ==
  /\ req.op = "postListing"
  /\ rev = "file" => FileTargetIndex(prev, req.body) = 0

TitleNonemptyString == IsString(req.body.title) /\ req.body.title.s # <<>>

TitleMissingOrEmpty == req.body.title = Undef \/ req.body.title = Str(<<>>)

\* the ids that are numbers or decimal numerals, as numbers
NumericIds(store) ==
  {store[i].id.n : i \in {j \in 1..Len(store) : store[j].id.t = "number"}}
  \cup {CharsToNat(store[i].id.s) :
          i \in {j \in 1..Len(store) : IsString(store[j].id) /\ AllDigits(store[j].id.s)}}

CreatedWithGreaterId ==
  /\ resp.ok
  /\ resp.listing.id.t = "number"
  /\ \A k \in NumericIds(prev) : resp.listing.id.n > k
  /\ resp.listing \in {listings[i] : i \in 1..Len(listings)}

C2_EmptyTitleRejected ==
  (IsCreate /\ TitleMissingOrEmpty) => (~resp.ok /\ listings = prev)

UniqueIds ==
  \A i, j \in 1..Len(listings) : i # j => listings[i].id # listings[j].id

\* the listings that stay keep their place's id (create, update, toggle) or
\* are listings of the store before (delete)
IdsKept ==
  /\ req.op \in {"postListing", "putListing", "complete", "contract"} =>
       \A i \in 1..Len(prev) : i <= Len(listings) /\ listings[i].id = prev[i].id
  /\ req.op = "deleteListing" =>
       \A i \in 1..Len(listings) : \E j \in 1..Len(prev) : listings[i] = prev[j]

\* C3 as stated: after any sequence of create, update, delete, toggle and
\* sync requests no two stored listings share an id, and no request changes
\* the id of a listing that stays in the store.
C3_IdsUniqueAndImmutable == UniqueIds /\ IdsKept

\* some stored listing has the id the route names
HasId(store, id) == \E i \in 1..Len(store) : ToChars(store[i].id) = id

DeleteOfMissingId == req.op = "deleteListing" /\ ~HasId(prev, req.id)

StringFields == {"title", "price", "location", "desc", "mapUrl"}

ArrayFields == {"tags", "images"}

\* index in prev of the listing the last request updated, 0 when it updated none
UpdatedIndex ==
  IF rev = "file" /\ req.op = "postListing" THEN FileTargetIndex(prev, req.body)
  ELSE IF rev = "db" /\ req.op = "putListing" /\ resp.ok THEN DbRowIndex(prev, req.id)
  ELSE 0

\* only the fields that are present and of the right type are overwritten
OnlyTypeCorrectFieldsWritten(old, new, body) ==
  /\ \A f \in StringFields :
       new[f] = IF IsString(body[f]) THEN body[f] ELSE old[f]
  /\ \A f \in ArrayFields :
       new[f] = IF IsArray(body[f]) THEN body[f] ELSE old[f]
  /\ new.id = old.id

OthersUntouched(i) ==
  /\ Len(listings) = Len(prev)
  /\ \A j \in 1..Len(prev) : j # i => listings[j] = prev[j]

\* C10 as stated: an update of an existing listing, in either revision,
\* overwrites only the fields present and type-correct in the request and
\* keeps every other field, the completion flag and the id.
C10_UpdateKeepsAbsentFields_Stated ==
  UpdatedIndex # 0 =>
    LET old == prev[UpdatedIndex]
        new == listings[UpdatedIndex]
    IN /\ OnlyTypeCorrectFieldsWritten(old, new, req.body)
       /\ rev = "file" => new.completed = old.completed
       /\ rev = "db" => new.contractDone = old.contractDone

\* C10 amended: in the file revision an update overwrites only the fields
\* present and type-correct (lat and lng: present and not null) and keeps
\* the others; in the database revision an accepted PUT replaces title,
\* price, location, mapUrl, desc, tags and images all together, a field
\* that is absent or falsy becoming "" and a tags or images value that is no
\* array becoming [].  In both the id, the completion flag and every other
\* listing are unchanged.
C10_UpdateKeepsAbsentFields ==
  UpdatedIndex # 0 =>
    LET old == prev[UpdatedIndex]
        new == listings[UpdatedIndex]
        body == req.body
    IN /\ OthersUntouched(UpdatedIndex)
       /\ new.id = old.id
       /\ rev = "file" =>
            /\ OnlyTypeCorrectFieldsWritten(old, new, body)
            /\ new.lat = (IF body.lat \in {Undef, Null} THEN old.lat ELSE body.lat)
            /\ new.lng = (IF body.lng \in {Undef, Null} THEN old.lng ELSE body.lng)
            /\ new.completed = old.completed
            /\ new.imgs = old.imgs
       /\ rev = "db" =>
            /\ new.title = Str(ToChars(body.title))
            /\ \A f \in StringFields \ {"title"} :
                 new[f] = (IF Truthy(body[f]) THEN Str(ToChars(body[f])) ELSE Str(<<>>))
            /\ \A f \in ArrayFields :
                 new[f] = (IF IsArray(body[f]) THEN body[f] ELSE Arr(<<>>))
            /\ new.contractDone = old.contractDone

C10_Witness ==
  /\ rev = "file"
  /\ UpdatedIndex # 0
  /\ req.body.price = Num(7)
  /\ prev[UpdatedIndex].price = Str(<<"5">>)
  /\ listings[UpdatedIndex].price = Str(<<"5">>)
  /\ prev[UpdatedIndex].title = Str(<<"B">>)
  /\ listings[UpdatedIndex].title = Str(<<>>)

(***************************************************************************)
(* Vocabulary of the user claims.  req is the last request, prev the user  *)
(* store it found, resp its response, users the store it left.             *)
(***************************************************************************)
UniqueNicknames ==
  \A i, j \in 1..Len(users) : i # j => users[i].nickname # users[j].nickname

\* the last request was a signup whose trimmed nickname some stored user has
SignupOfStoredNickname ==
  /\ req.op = "signup"
  /\ \E i \in 1..Len(prev) : prev[i].nickname = Str(Trim(ToChars(req.body.nickname)))

\* C5: no two stored users share a nickname (compared case-sensitively); a
\* signup whose trimmed nickname a stored user already has answers ok:false
\* and leaves the user store as it was.
C5_NicknamesUnique ==
  /\ UniqueNicknames
  /\ SignupOfStoredNickname => (~resp.ok /\ users = prev)

C5_Witness ==
  /\ SignupOfStoredNickname
  /\ req.body.nickname = Str(<<" ", "a">>)
  /\ Truthy(req.body.password)
  /\ Truthy(req.body.phone)
  /\ \A i \in 1..Len(prev) : prev[i].phone # req.body.phone
  /\ \E i \in 1..Len(users) : users[i].nickname = Str(<<"a">>)
  /\ ~resp.ok
  /\ users = prev

\* C6 as stated: in every revision a signup with the nickname "admin"
\* answers ok:false and adds no user record.
C6_AdminNicknameRejected ==
  (req.op = "signup" /\ req.body.nickname = Str(AdminName)) =>
    (~resp.ok /\ users = prev)

StoredPassword(u) == IF "pw" \in DOMAIN u THEN u.pw ELSE u.password

LoginResponse(store, body) ==
  IF rev = "file" THEN FileLogin(store, body) ELSE DbLogin(store, body)

\* C7 as stated: a login with nickname n and password p answers ok:true
\* exactly when some stored user has nickname (or id) n and password p; and
\* after a successful signup of (n, p) a login with (n, p) answers ok:true
\* and one with (n, p') for p' other than p answers ok:false.
C7_LoginExactMatch_Stated ==
  /\ req.op = "login" =>
       (resp.ok <=>
          \E i \in 1..Len(users) :
            /\ users[i].nickname = req.body.nickname \/ users[i].id = req.body.nickname
            /\ StoredPassword(users[i]) = req.body.password)
  /\ (req.op = "signup" /\ resp.ok) =>
       /\ LoginResponse(users, [nickname |-> req.body.nickname,
                                password |-> req.body.password]).ok
       /\ \A q \in Passwords \ {req.body.password} :
            ~LoginResponse(users, [nickname |-> req.body.nickname, password |-> q]).ok

StringOrMissing(v) == v.t \in {"string", "undefined"}

\* the nickname a login or signup compares: the text given, trimmed
ComparedNickname(v) == Str(Trim(v.s))

\* the password a login or signup compares: trimmed in the file revision,
\* as given in the database revision
ComparedPassword(v) == IF rev = "file" THEN Str(Trim(v.s)) ELSE v

\* C7 amended: for a nickname n and a password p that are strings or
\* missing, a login answers ok:true exactly when some stored user has the
\* trimmed n as nickname (or id) and the stored password equal to p (in the
\* file revision: to the trimmed p); after a successful signup of (n, p) a
\* login with (n, p) answers ok:true with the user of that nickname, and a
\* login with (n, p') answers ok:false for every p' that differs from p (in
\* the file revision: after trimming).
C7_LoginExactMatch ==
  /\ (/\ req.op = "login"
      /\ StringOrMissing(req.body.nickname)
      /\ StringOrMissing(req.body.password)) =>
       (resp.ok <=>
          \E i \in 1..Len(users) :
            /\ \/ users[i].nickname = ComparedNickname(req.body.nickname)
               \/ users[i].id = ComparedNickname(req.body.nickname)
            /\ StoredPassword(users[i]) = ComparedPassword(req.body.password))
  /\ (/\ req.op = "signup"
      /\ resp.ok
      /\ StringOrMissing(req.body.nickname)) =>
       LET again == LoginResponse(users, [nickname |-> req.body.nickname,
                                          password |-> req.body.password])
       IN /\ again.ok
          /\ again.user.nickname = ComparedNickname(req.body.nickname)
          /\ again.user.id = resp.user.id
          /\ \A q \in Passwords :
               ComparedPassword(q) # ComparedPassword(req.body.password) =>
                 ~LoginResponse(users, [nickname |-> req.body.nickname,
                                        password |-> q]).ok

C7_Witness ==
  /\ req.op = "login"
  /\ req.body.nickname = Str(<<" ", "a">>)
  /\ req.body.password = Str(<<" ", "y">>)
  /\ resp.ok
  /\ resp.user.nickname = Str(<<"a">>)
  /\ Len(users) = 2

HasNoPassword(u) == "password" \notin DOMAIN u /\ "pw" \notin DOMAIN u

\* C8 as stated: the user returned by a successful signup, the user returned
\* by a successful login and every element of the user list carry no
\* password or pw field, in every revision.
C8_NoPasswordInResponses ==
  /\ (req.op \in {"signup", "login"} /\ resp.ok) => HasNoPassword(resp.user)
  /\ req.op = "users" => \A i \in 1..Len(resp.users) : HasNoPassword(resp.users[i])

AdminRecords(store) == {i \in 1..Len(store) : store[i].id = Str(AdminName)}

\* C9: in the database revision the user store always holds exactly one
\* record with id "admin", after the first start and after any signups and
\* restarts; seeding a store that already holds it leaves the store as it was.
C9_OneAdminSeeded ==
  rev = "db" =>
    /\ Cardinality(AdminRecords(users)) = 1
    /\ (req.op = "restart" /\ AdminRecords(prev) # {}) => users = prev

C9_Witness ==
  /\ rev = "db"
  /\ req.op = "restart"
  /\ Len(prev) = 2
  /\ users = prev
  /\ Cardinality(AdminRecords(users)) = 1

(***************************************************************************)
(* Two requests in flight against the file stores.  A request arrives      *)
(* (its body is read by express.json()), and later its route handler runs. *)
(* Every handler of part_000, and signup of server.js, is one synchronous  *)
(* callback: readFileSync, the change, writeFileSync and res.json() happen *)
(* without returning to the event loop, so the handler is one step.        *)
(***************************************************************************)
\* loadListings() reads listings.json at the time the handler calls it
LoadListingsAtArrival(arrived, file) == arrived

LoadListings(arrived, file) == file

\* loadUsers() reads the users file at the time the handler calls it
LoadUsers(arrived, file) == file

RaceListingBodies == {TitleOnlyBody, FullBody}

RaceSignupBodies ==
  [nickname : {Str(<<"a">>), Str(<<"A">>)}, phone : {Str(<<"1">>), Str(<<"2">>)},
   password : {Str(<<"x">>)}]

\* the request of client c reaches the server; seenListings and seenUsers
\* record what the files held at that moment
Arrive(c) ==
  /\ calls[c].pc = "idle"
  /\ \E op \in {"postListing", "signup"} :
       /\ op = "postListing" => rev = "file"
       /\ \E body \in IF op = "postListing" THEN RaceListingBodies
                      ELSE RaceSignupBodies :
            calls' = [calls EXCEPT ![c] =
                        [pc |-> "queued", op |-> op, body |-> body,
                         seenListings |-> listings, seenUsers |-> users,
                         res |-> NoResponse]]
  /\ UNCHANGED <<queries, rev, listings, seq, users, clock, req, resp, prev>>

\* the handler of POST /api/listings runs for client c
HandlePostListing(c) ==
  /\ calls[c].pc = "queued" /\ calls[c].op = "postListing"
  /\ LET data == LoadListings(calls[c].seenListings, listings)
         r == FilePostListing(data, calls[c].body)
     IN /\ listings' = r.data
        /\ calls' = [calls EXCEPT ![c].pc = "done", ![c].res = r.res]
  /\ UNCHANGED <<queries, rev, seq, users, clock, req, resp, prev>>

\* the handler of POST /api/signup runs for client c
HandleSignup(c) ==
  /\ calls[c].pc = "queued" /\ calls[c].op = "signup"
  /\ LET store == LoadUsers(calls[c].seenUsers, users)
         r == IF rev = "file" THEN FileSignup(store, calls[c].body, clock, clock)
              ELSE DbSignup(store, calls[c].body)
     IN /\ users' = r.data
        /\ calls' = [calls EXCEPT ![c].pc = "done", ![c].res = r.res]
  /\ UNCHANGED <<queries, rev, listings, seq, clock, req, resp, prev>>

InitFileRace == InitUsers

NextFileRace ==
  \E c \in Clients :
    \/ Arrive(c)
    \/ HandlePostListing(c)
    \/ HandleSignup(c)

\* a request that arrived is answered: the event loop runs every callback
SpecFileRace ==
  InitFileRace /\ [][NextFileRace]_vars /\ WF_vars(NextFileRace)

\* client c's request was acknowledged with ok:true
Acked(c) == calls[c].pc = "done" /\ calls[c].res.ok

\* the update client c was acknowledged for is in the store
Stored(c) ==
  IF calls[c].op = "postListing"
  THEN \E i \in 1..Len(listings) : listings[i] = calls[c].res.listing
  ELSE \E i \in 1..Len(users) :
         /\ users[i].nickname = calls[c].res.user.nickname
         /\ users[i].phone = calls[c].res.user.phone

\* both requests were acknowledged and the update of one of them is missing
LostUpdate ==
  /\ \A c \in Clients : Acked(c)
  /\ \E c \in Clients : ~Stored(c)

\* both requests were in flight together: each arrived before the handler of
\* the other one had written
InFlightTogether ==
  /\ \A c \in Clients : calls[c].pc = "done"
  /\ calls["A"].op = calls["B"].op
  /\ calls["A"].seenListings = calls["B"].seenListings
  /\ calls["A"].seenUsers = calls["B"].seenUsers

RaceIds == {<<"1">>, <<"2">>}

\* the request of client c after its write query succeeded
Listing(op, row) ==
  [pc |-> "list", op |-> op, row |-> row, between |-> FALSE, touched |-> FALSE]

\* what the write query of client c does to the requests that wait for
\* their list query; id is the id of the row it matched, Null when it
\* inserted a new row
AfterWrite(c, op, row, id) ==
  [d \in Clients |->
     IF d = c THEN Listing(op, row)
     ELSE IF calls[d].pc # "list" THEN calls[d]
     ELSE [calls[d] EXCEPT
             !.between = TRUE,
             !.touched = @ \/ (calls[d].row # Null /\ calls[d].row.id = id)]]

\* the write query of a handler ran: r is what it leaves
WriteStep(c, op, r, row, id) ==
  /\ calls[c].pc = "idle"
  /\ queries < MaxQueries
  /\ queries' = queries + 1
  /\ IF r.res.ok
     THEN /\ listings' = r.data
          /\ calls' = AfterWrite(c, op, row, id)
          /\ UNCHANGED <<req, resp>>
     ELSE /\ req' = [op |-> op, client |-> c, between |-> FALSE, touched |-> FALSE]
          /\ resp' = r.res
          /\ UNCHANGED <<listings, calls>>

\* POST /api/listings up to the INSERT
WritePost(c) ==
  /\ \E body \in RaceListingBodies :
       LET r == DbPostListing(listings, seq, body)
       IN /\ Truthy(body.title) => seq < MaxId
          /\ seq' = r.seq
          /\ WriteStep(c, "postListing", r,
                       IF r.res.ok THEN r.res.listing ELSE Null, Null)
  /\ UNCHANGED <<rev, users, clock, prev>>

\* PUT /api/listings/:id up to the UPDATE
WritePut(c) ==
  /\ \E id \in RaceIds, body \in RaceListingBodies :
       LET r == DbPutListing(listings, id, body)
       IN WriteStep(c, "putListing", r,
                    IF r.res.ok THEN r.res.listing ELSE Null, Num(CharsToNat(id)))
  /\ UNCHANGED <<rev, seq, users, clock, prev>>

\* POST /api/listings/:id/contract up to the UPDATE
WriteContract(c) ==
  /\ \E id \in RaceIds, done \in Flags :
       LET r == DbPostContract(listings, id, done)
       IN WriteStep(c, "contract", r,
                    IF r.res.ok THEN r.res.listing ELSE Null, Num(CharsToNat(id)))
  /\ UNCHANGED <<rev, seq, users, clock, prev>>

\* DELETE /api/listings/:id up to the DELETE
WriteDelete(c) ==
  /\ \E id \in RaceIds :
       LET r == DbDeleteListing(listings, id)
       IN WriteStep(c, "deleteListing", r, Null, Num(CharsToNat(id)))
  /\ UNCHANGED <<rev, seq, users, clock, prev>>

\* the list query of the handler and its response
ListStep(c) ==
  /\ calls[c].pc = "list"
  /\ LET all == SelectAllDesc(listings)
     IN resp' = IF calls[c].op = "deleteListing"
                THEN [status |-> 200, ok |-> TRUE, listings |-> all]
                ELSE [status |-> 200, ok |-> TRUE, listing |-> calls[c].row,
                      listings |-> all]
  /\ req' = [op |-> calls[c].op, client |-> c, between |-> calls[c].between,
             touched |-> calls[c].touched]
  /\ calls' = [calls EXCEPT ![c] = Idle]
  /\ UNCHANGED <<rev, listings, seq, users, clock, prev, queries>>

InitDbRace == InitListings /\ rev = "db"

NextDbRace ==
  \E c \in Clients :
    \/ WritePost(c)
    \/ WritePut(c)
    \/ WriteContract(c)
    \/ WriteDelete(c)
    \/ ListStep(c)

SpecDbRace == InitDbRace /\ [][NextDbRace]_vars

\* the last response answers a create, update or contract toggle with ok:true
AnsweredWrite ==
  /\ req.op \in {"postListing", "putListing", "contract"}
  /\ resp.ok

\* the returned listing is in the returned list with the same field values
ListingInList == \E i \in 1..Len(resp.listings) : resp.listings[i] = resp.listing

\* C12 as stated: whenever create, update or contract toggle answers
\* ok:true, the returned listing is a member of the returned list with the
\* same field values, also when other requests ran between the write query
\* and the list query.
C12_ListingInList_Stated == AnsweredWrite => ListingInList

\* C12: the returned listing is the row as the handler's own write query
\* left it and the returned list is the table at the later list query; the
\* listing is a member of the list with the same field values whenever no
\* delete, update or toggle of another request matched that id between the
\* two queries.
C12_ListingInList == (AnsweredWrite /\ ~req.touched) => ListingInList

\* another request wrote between the two queries, on another row
C12_Witness ==
  /\ AnsweredWrite
  /\ req.between /\ ~req.touched
  /\ ListingInList
  /\ Len(resp.listings) = 2

====
